---------------------------- MODULE Spec2Model ----------------------------
(***************************************************************************)
(* Sundials/ML: the C stubs that bind OCaml to the SUNDIALS solvers.       *)
(*                                                                         *)
(* The module models five parts of the binding, each with its own          *)
(* specification over the same variables:                                  *)
(*   SpecFlag    the flag check applied after every SUNDIALS call          *)
(*               (cvode_ml_check_flag, check_flag, CHECK_FLAG);            *)
(*   SpecTramp   the callback trampolines of the bigarray build and the    *)
(*               array wrappers they hand to the OCaml closures;           *)
(*   SpecSerial  the custom-block sessions of cvode_serial.c / cvode_ml.c  *)
(*               (c_init, c_register_handler, c_free, finalize, the stubs  *)
(*               and the library calls they make);                         *)
(*   SpecProtocol  the same stubs, called in the order the comments of     *)
(*               cvode_serial.c ask for (register, then enable or step);   *)
(*   SpecGC      the weak-reference sessions described in cvode_ml.h and   *)
(*               idas_ml.h (global root -> Weak.t -> session record);      *)
(*   SpecStep    the solver step and the result it hands to OCaml.         *)
(***************************************************************************)
EXTENDS Integers, Sequences, FiniteSets, TLC

VARIABLES
    chk,        \* SpecFlag: the last flag check made by a stub
    tr,         \* SpecTramp: the trampoline activation in progress or last ended
    ba,         \* SpecTramp: dim[0] of every bigarray wrapper that activation made
    ses,        \* SpecSerial: per session, the custom block and its struct fields
    cmem,       \* SpecSerial: per session, the solver memory made by CVodeCreate
    cfile,      \* SpecSerial: per session, the FILE opened by c_set_error_file
    roots,      \* SpecSerial: the addresses registered as generational global roots
    stack,      \* SpecSerial: the frames of stubs, library calls and callbacks
    halted,     \* SpecSerial: the process has been stopped by a fault
    log,        \* SpecSerial: history of what the stubs and the library did
    rec,        \* SpecGC: per slot of the OCaml heap, a session record and its C side
    calls,      \* SpecGC: the frames of library calls and callbacks in progress
    hist,       \* SpecGC: what the trampolines have met
    step        \* SpecStep: the last solver step a stub made

vars == <<chk, tr, ba, ses, cmem, cfile, roots, stack, halted, log, rec, calls,
         hist, step>>

\* The variables of each part, and the variables outside each part.
flagVars == <<chk>>
trampVars == <<tr, ba>>
serialVars == <<ses, cmem, cfile, roots, stack, halted, log>>
weakVars == <<rec, calls, hist>>
stepVars == <<step>>
notFlagVars == <<trampVars, serialVars, weakVars, stepVars>>
notTrampVars == <<flagVars, serialVars, weakVars, stepVars>>
notSerialVars == <<flagVars, trampVars, weakVars, stepVars>>
notWeakVars == <<flagVars, trampVars, serialVars, stepVars>>
notStepVars == <<flagVars, trampVars, serialVars, weakVars>>

NULL == "NULL"

(***************************************************************************)
(* Part 1: return flags and the flag check.                                *)
(***************************************************************************)

\* The return flags of CVODE that the stubs name (values of SUNDIALS' cvode.h).
CVodeFlag ==
    [ CV_SUCCESS           |-> 0,
      CV_TSTOP_RETURN      |-> 1,
      CV_ROOT_RETURN       |-> 2,
      CV_WARNING           |-> 99,
      CV_TOO_MUCH_WORK     |-> 0 - 1,
      CV_TOO_MUCH_ACC      |-> 0 - 2,
      CV_ERR_FAILURE       |-> 0 - 3,
      CV_CONV_FAILURE      |-> 0 - 4,
      CV_LINIT_FAIL        |-> 0 - 5,
      CV_LSETUP_FAIL       |-> 0 - 6,
      CV_LSOLVE_FAIL       |-> 0 - 7,
      CV_RHSFUNC_FAIL      |-> 0 - 8,
      CV_FIRST_RHSFUNC_ERR |-> 0 - 9,
      CV_REPTD_RHSFUNC_ERR |-> 0 - 10,
      CV_UNREC_RHSFUNC_ERR |-> 0 - 11,
      CV_RTFUNC_FAIL       |-> 0 - 12,
      CV_MEM_FAIL          |-> 0 - 20,
      CV_MEM_NULL          |-> 0 - 21,
      CV_ILL_INPUT         |-> 0 - 22,
      CV_NO_MALLOC         |-> 0 - 23,
      CV_BAD_K             |-> 0 - 24,
      CV_BAD_T             |-> 0 - 25,
      CV_BAD_DKY           |-> 0 - 26,
      CV_TOO_CLOSE         |-> 0 - 27 ]

FlagNames == DOMAIN CVodeFlag

\* CVodeGetReturnFlagName: the name of a flag value, "NONE" for a value
\* that names no CVODE flag.
CVodeGetReturnFlagName(flag) ==
    IF \E n \in FlagNames : CVodeFlag[n] = flag
    THEN CHOOSE n \in FlagNames : CVodeFlag[n] = flag
    ELSE "NONE"

\* What a check does with control: it returns to the stub, or it raises an
\* OCaml exception (caml_raise_constant / caml_failwith do not return).
\* freed: whether the check called free(to_free) before raising.
Returned == [kind |-> "return", exn |-> "none", msg |-> <<>>, freed |-> FALSE]
RaiseConstant(name, to_free) ==
    [kind |-> "raise", exn |-> name, msg |-> <<>>, freed |-> to_free # NULL]
Failwith(m, to_free) ==
    [kind |-> "raise", exn |-> "Failure", msg |-> m, freed |-> to_free # NULL]

\* The switch of cvode_ml_check_flag / check_flag: one case per flag, in
\* the order of the source; the default case formats "<call>: <flag name>".
FlagSwitch(call, flag, to_free) ==
    CASE flag = CVodeFlag.CV_ILL_INPUT         -> RaiseConstant("cvode_IllInput", to_free)
      [] flag = CVodeFlag.CV_TOO_CLOSE         -> RaiseConstant("cvode_TooClose", to_free)
      [] flag = CVodeFlag.CV_TOO_MUCH_WORK     -> RaiseConstant("cvode_TooMuchWork", to_free)
      [] flag = CVodeFlag.CV_TOO_MUCH_ACC      -> RaiseConstant("cvode_TooMuchAccuracy", to_free)
      [] flag = CVodeFlag.CV_ERR_FAILURE       -> RaiseConstant("cvode_ErrFailure", to_free)
      [] flag = CVodeFlag.CV_CONV_FAILURE      -> RaiseConstant("cvode_ConvergenceFailure", to_free)
      [] flag = CVodeFlag.CV_LINIT_FAIL        -> RaiseConstant("cvode_LinearInitFailure", to_free)
      [] flag = CVodeFlag.CV_LSETUP_FAIL       -> RaiseConstant("cvode_LinearSetupFailure", to_free)
      [] flag = CVodeFlag.CV_LSOLVE_FAIL       -> RaiseConstant("cvode_LinearSolveFailure", to_free)
      [] flag = CVodeFlag.CV_RHSFUNC_FAIL      -> RaiseConstant("cvode_RhsFuncFailure", to_free)
      [] flag = CVodeFlag.CV_FIRST_RHSFUNC_ERR -> RaiseConstant("cvode_FirstRhsFuncError", to_free)
      [] flag = CVodeFlag.CV_REPTD_RHSFUNC_ERR -> RaiseConstant("cvode_RepeatedRhsFuncError", to_free)
      [] flag = CVodeFlag.CV_UNREC_RHSFUNC_ERR -> RaiseConstant("cvode_UnrecoverableRhsFuncError", to_free)
      [] flag = CVodeFlag.CV_RTFUNC_FAIL       -> RaiseConstant("cvode_RootFuncFailure", to_free)
      [] flag = CVodeFlag.CV_BAD_K             -> RaiseConstant("cvode_BadK", to_free)
      [] flag = CVodeFlag.CV_BAD_T             -> RaiseConstant("cvode_BadT", to_free)
      [] flag = CVodeFlag.CV_BAD_DKY           -> RaiseConstant("cvode_BadDky", to_free)
      [] OTHER -> Failwith(<<call, CVodeGetReturnFlagName(flag)>>, to_free)

\* Mutant: the early return forgets CV_TSTOP_RETURN, which then falls into
\* the default case and raises.
cvode_ml_check_flag_noTstop(call, flag, to_free) ==
    IF flag = CVodeFlag.CV_SUCCESS \/ flag = CVodeFlag.CV_ROOT_RETURN
    THEN Returned
    ELSE FlagSwitch(call, flag, to_free)

\* cvode_ml.c: cvode_ml_check_flag.
cvode_ml_check_flag(call, flag, to_free) ==
    IF \/ flag = CVodeFlag.CV_SUCCESS
       \/ flag = CVodeFlag.CV_ROOT_RETURN
       \/ flag = CVodeFlag.CV_TSTOP_RETURN
    THEN Returned
    ELSE FlagSwitch(call, flag, to_free)

\* The switch of cvode_serial.c's check_flag (the same table, written out
\* a second time in that file).
SerialFlagSwitch(call, flag, to_free) ==
    CASE flag = CVodeFlag.CV_ILL_INPUT         -> RaiseConstant("cvode_IllInput", to_free)
      [] flag = CVodeFlag.CV_TOO_CLOSE         -> RaiseConstant("cvode_TooClose", to_free)
      [] flag = CVodeFlag.CV_TOO_MUCH_WORK     -> RaiseConstant("cvode_TooMuchWork", to_free)
      [] flag = CVodeFlag.CV_TOO_MUCH_ACC      -> RaiseConstant("cvode_TooMuchAccuracy", to_free)
      [] flag = CVodeFlag.CV_ERR_FAILURE       -> RaiseConstant("cvode_ErrFailure", to_free)
      [] flag = CVodeFlag.CV_CONV_FAILURE      -> RaiseConstant("cvode_ConvergenceFailure", to_free)
      [] flag = CVodeFlag.CV_LINIT_FAIL        -> RaiseConstant("cvode_LinearInitFailure", to_free)
      [] flag = CVodeFlag.CV_LSETUP_FAIL       -> RaiseConstant("cvode_LinearSetupFailure", to_free)
      [] flag = CVodeFlag.CV_LSOLVE_FAIL       -> RaiseConstant("cvode_LinearSolveFailure", to_free)
      [] flag = CVodeFlag.CV_RHSFUNC_FAIL      -> RaiseConstant("cvode_RhsFuncFailure", to_free)
      [] flag = CVodeFlag.CV_FIRST_RHSFUNC_ERR -> RaiseConstant("cvode_FirstRhsFuncError", to_free)
      [] flag = CVodeFlag.CV_REPTD_RHSFUNC_ERR -> RaiseConstant("cvode_RepeatedRhsFuncError", to_free)
      [] flag = CVodeFlag.CV_UNREC_RHSFUNC_ERR -> RaiseConstant("cvode_UnrecoverableRhsFuncError", to_free)
      [] flag = CVodeFlag.CV_RTFUNC_FAIL       -> RaiseConstant("cvode_RootFuncFailure", to_free)
      [] flag = CVodeFlag.CV_BAD_K             -> RaiseConstant("cvode_BadK", to_free)
      [] flag = CVodeFlag.CV_BAD_T             -> RaiseConstant("cvode_BadT", to_free)
      [] flag = CVodeFlag.CV_BAD_DKY           -> RaiseConstant("cvode_BadDky", to_free)
      [] OTHER -> Failwith(<<call, CVodeGetReturnFlagName(flag)>>, to_free)

\* Mutant: two cases of the table raise the same exception (a copy-paste
\* slip: CV_BAD_T raises cvode_BadK).
check_flag_sharedExn(call, flag, to_free) ==
    IF \/ flag = CVodeFlag.CV_SUCCESS
       \/ flag = CVodeFlag.CV_ROOT_RETURN
       \/ flag = CVodeFlag.CV_TSTOP_RETURN
    THEN Returned
    ELSE IF flag = CVodeFlag.CV_BAD_T
         THEN RaiseConstant("cvode_BadK", to_free)
         ELSE SerialFlagSwitch(call, flag, to_free)

\* cvode_serial.c: check_flag.
check_flag(call, flag, to_free) ==
    IF \/ flag = CVodeFlag.CV_SUCCESS
       \/ flag = CVodeFlag.CV_ROOT_RETURN
       \/ flag = CVodeFlag.CV_TSTOP_RETURN
    THEN Returned
    ELSE SerialFlagSwitch(call, flag, to_free)

\* cvode_ml.h: the CHECK_FLAG macro the stubs of cvode_ml*.c use.
CHECK_FLAG(call, flag) ==
    IF flag # CVodeFlag.CV_SUCCESS
    THEN cvode_ml_check_flag(call, flag, NULL)
    ELSE Returned

\* The flag values a library call is let return: every value from
\* -FlagBound to FlagBound, and CV_WARNING.
FlagBound == 30
Flags == ((0 - FlagBound) .. FlagBound) \cup {CVodeFlag.CV_WARNING}

\* The flags that let a stub continue.
OkFlags == {CVodeFlag.CV_SUCCESS, CVodeFlag.CV_ROOT_RETURN, CVodeFlag.CV_TSTOP_RETURN}

\* The 17 flags with an exception of their own.
TableFlagNames ==
    { "CV_ILL_INPUT", "CV_TOO_CLOSE", "CV_TOO_MUCH_WORK", "CV_TOO_MUCH_ACC",
      "CV_ERR_FAILURE", "CV_CONV_FAILURE", "CV_LINIT_FAIL", "CV_LSETUP_FAIL",
      "CV_LSOLVE_FAIL", "CV_RHSFUNC_FAIL", "CV_FIRST_RHSFUNC_ERR",
      "CV_REPTD_RHSFUNC_ERR", "CV_UNREC_RHSFUNC_ERR", "CV_RTFUNC_FAIL",
      "CV_BAD_K", "CV_BAD_T", "CV_BAD_DKY" }
TableFlags == { CVodeFlag[n] : n \in TableFlagNames }

\* Names of library calls whose flag the stubs check.
Calls == {"CVodeInit", "CVode", "CVodeGetDky", "CVDiag", "CVodeSetMaxOrd"}

NoCheck == [unit |-> "none", call |-> "none", flag |-> 0, to_free |-> NULL,
            out |-> Returned]

\* A stub of cvode_ml.c / cvode_ml_nvec.c checks the flag of a library call.
MlStubCheck ==
    /\ \E call \in Calls, flag \in Flags :
          chk' = [unit |-> "cvode_ml", call |-> call, flag |-> flag,
                  to_free |-> NULL, out |-> CHECK_FLAG(call, flag)]
    /\ UNCHANGED notFlagVars

\* A stub of cvode_serial.c checks the flag of a library call; c_init
\* passes its session data as to_free, every other stub passes NULL.
SerialStubCheck ==
    /\ \E call \in Calls, flag \in Flags :
          \E to_free \in (IF call = "CVodeInit" THEN {"data"} ELSE {NULL}) :
              chk' = [unit |-> "cvode_serial", call |-> call, flag |-> flag,
                      to_free |-> to_free, out |-> check_flag(call, flag, to_free)]
    /\ UNCHANGED notFlagVars

\* No check has been made.
FlagIdle == chk = NoCheck

(***************************************************************************)
(* Part 2: the callback trampolines of the bigarray build                  *)
(* (CVODE_ML_BIGARRAYS) and the wrappers they make over solver memory.     *)
(* A wrapper is a bigarray whose data pointer is the solver's vector; the  *)
(* heap h maps each wrapped vector to dim[0] of its wrapper.               *)
(***************************************************************************)

\* No trampoline has been entered.
NoTramp == [unit |-> "none", name |-> "none", pc |-> "idle", n |-> 0,
            kept |-> NULL, out |-> "none", ret |-> 0, jcur |-> "unset"]
TrampIdle == tr = NoTramp /\ ba = <<>>

\* Longest vector the solver hands to a trampoline.
MaxVecLen == 2

\* WRAP_NVECTOR / wrap_nvector: caml_ba_alloc over NV_DATA_S(v), dim[0] = n.
WRAP_NVECTOR(h, v, n) ==
    [x \in (DOMAIN h) \cup {v} |-> IF x = v THEN n ELSE h[x]]

\* RELINQUISH_WRAPPEDNV / relinquish_nvector_wrapping: dim[0] = 0.
RELINQUISH_WRAPPEDNV(h, v) == [h EXCEPT ![v] = 0]

\* make_triple_tmp: a tuple of three wrappers.
make_triple_tmp(h, n) ==
    [heap |-> WRAP_NVECTOR(WRAP_NVECTOR(WRAP_NVECTOR(h, "tmp1", n), "tmp2", n), "tmp3", n),
     val  |-> <<"tmp1", "tmp2", "tmp3">>]

\* make_jac_arg: the record {jac_t; jac_y; jac_fy; jac_tmp}, wrapping y and fy.
make_jac_arg(h, tmp, n) ==
    [heap |-> WRAP_NVECTOR(WRAP_NVECTOR(h, "y", n), "fy", n),
     val  |-> [jac_y |-> "y", jac_fy |-> "fy", jac_tmp |-> tmp]]

\* make_spils_solve_arg: the record {rhs; gamma; delta; left}, wrapping r.
make_spils_solve_arg(h, n) ==
    [heap |-> WRAP_NVECTOR(h, "r", n), val |-> [rhs |-> "r"]]

\* Mutant: relinquish_jac_arg without its else branch, so the single tmp
\* wrapper of presolvefn and jactimesfn keeps its length.
relinquish_jac_arg_noSingleTmp(h, arg, triple) ==
    LET h2 == RELINQUISH_WRAPPEDNV(RELINQUISH_WRAPPEDNV(h, arg.jac_y), arg.jac_fy)
        tmp == arg.jac_tmp
    IN  IF triple
        THEN RELINQUISH_WRAPPEDNV(
                 RELINQUISH_WRAPPEDNV(RELINQUISH_WRAPPEDNV(h2, tmp[1]), tmp[2]), tmp[3])
        ELSE h2

\* relinquish_jac_arg(arg, triple).
relinquish_jac_arg(h, arg, triple) ==
    LET h2 == RELINQUISH_WRAPPEDNV(RELINQUISH_WRAPPEDNV(h, arg.jac_y), arg.jac_fy)
        tmp == arg.jac_tmp
    IN  IF triple
        THEN RELINQUISH_WRAPPEDNV(
                 RELINQUISH_WRAPPEDNV(RELINQUISH_WRAPPEDNV(h2, tmp[1]), tmp[2]), tmp[3])
        ELSE RELINQUISH_WRAPPEDNV(h2, tmp)

\* relinquish_spils_solve_arg(arg).
relinquish_spils_solve_arg(h, arg) == RELINQUISH_WRAPPEDNV(h, arg.rhs)

\* The trampolines of cvode_ml_nvec.c and cvode_serial.c that hand vectors
\* to a closure, and errh, which hands it a record of strings.
VecTrampolines ==
    {"f", "roots", "errw", "jacfn", "bandjacfn", "presetupfn", "presolvefn",
     "jactimesfn"}
Trampolines(unit) ==
    IF unit = "cvode_ml_nvec" THEN VecTrampolines \cup {"errh"}
    ELSE (VecTrampolines \ {"errw"}) \cup {"errh"}
Units == {"cvode_ml_nvec", "cvode_serial"}

\* Whether the trampoline calls its closure with caml_callback*_exn, which
\* hands a raised exception back as a result; errh uses caml_callback.
UsesCallbackExn(name) == name # "errh"

\* The part of a trampoline before the closure is called: the values it
\* builds, as the heap of wrappers and the arguments of the closure.
TrampolineArgs(name, n) ==
    CASE name = "f" ->
            [heap |-> WRAP_NVECTOR(WRAP_NVECTOR(<<>>, "y", n), "ydot", n),
             arg |-> NULL, solvearg |-> NULL]
      [] name = "roots" ->
            [heap |-> WRAP_NVECTOR(WRAP_NVECTOR(<<>>, "y", n), "gout", n),
             arg |-> NULL, solvearg |-> NULL]
      [] name = "errw" ->
            [heap |-> WRAP_NVECTOR(WRAP_NVECTOR(<<>>, "y", n), "ewt", n),
             arg |-> NULL, solvearg |-> NULL]
      [] name \in {"jacfn", "bandjacfn", "presetupfn"} ->
            LET tmp == make_triple_tmp(<<>>, n)
                a   == make_jac_arg(tmp.heap, tmp.val, n)
            IN  [heap |-> a.heap, arg |-> a.val, solvearg |-> NULL]
      [] name = "presolvefn" ->
            LET a  == make_jac_arg(WRAP_NVECTOR(<<>>, "tmp", n), "tmp", n)
                sa == make_spils_solve_arg(a.heap, n)
            IN  [heap |-> WRAP_NVECTOR(sa.heap, "z", n),
                 arg |-> a.val, solvearg |-> sa.val]
      [] name = "jactimesfn" ->
            LET a == make_jac_arg(WRAP_NVECTOR(<<>>, "tmp", n), "tmp", n)
            IN  [heap |-> WRAP_NVECTOR(WRAP_NVECTOR(a.heap, "v", n), "Jv", n),
                 arg |-> a.val, solvearg |-> NULL]
      [] OTHER -> [heap |-> <<>>, arg |-> NULL, solvearg |-> NULL]

\* The part of a trampoline after the closure has come back: the heap once
\* the trampoline has relinquished what it wrapped.
TrampolineRelinquish(name, h, args) ==
    CASE name = "f" ->
            RELINQUISH_WRAPPEDNV(RELINQUISH_WRAPPEDNV(h, "y"), "ydot")
      [] name = "roots" ->
            [RELINQUISH_WRAPPEDNV(h, "y") EXCEPT !["gout"] = 0]
      [] name = "errw" ->
            RELINQUISH_WRAPPEDNV(RELINQUISH_WRAPPEDNV(h, "y"), "ewt")
      [] name \in {"jacfn", "bandjacfn", "presetupfn"} ->
            relinquish_jac_arg(h, args.arg, TRUE)
      [] name = "presolvefn" ->
            RELINQUISH_WRAPPEDNV(
                relinquish_spils_solve_arg(
                    relinquish_jac_arg(h, args.arg, FALSE), args.solvearg), "z")
      [] name = "jactimesfn" ->
            RELINQUISH_WRAPPEDNV(
                RELINQUISH_WRAPPEDNV(relinquish_jac_arg(h, args.arg, FALSE), "v"), "Jv")
      [] OTHER -> h

\* What a closure can do: return, or raise RecoverableFailure or another
\* exception.
ClosureOutcomes == {"normal", "RecoverableFailure", "Not_found"}

Is_exception_result(r) == r # "normal"

\* Mutant: every raised exception is taken as unrecoverable.
check_exception_allFatal(r) ==
    IF ~Is_exception_result(r) THEN 0 ELSE 0 - 1

\* check_exception(r): 0, 1 for RecoverableFailure, -1 for any other exception.
check_exception(r) ==
    IF ~Is_exception_result(r) THEN 0
    ELSE IF r = "RecoverableFailure" THEN 1 ELSE 0 - 1

\* The solver calls a trampoline, which wraps its vectors and calls the
\* closure.
TrampolineEnter ==
    /\ tr.pc # "in_callback"
    /\ \E unit \in Units :
         \E name \in Trampolines(unit), n \in 1 .. MaxVecLen :
            /\ tr' = [unit |-> unit, name |-> name, pc |-> "in_callback", n |-> n,
                      kept |-> NULL, out |-> "none", ret |-> 0, jcur |-> "unset"]
            /\ ba' = TrampolineArgs(name, n).heap
    /\ UNCHANGED notTrampVars

\* The closure, while it runs, stores one of the wrappers it was given.
ClosureRetains ==
    /\ tr.pc = "in_callback"
    /\ tr.kept = NULL
    /\ \E v \in DOMAIN ba : tr' = [tr EXCEPT !.kept = v]
    /\ UNCHANGED <<ba, notTrampVars>>

\* The closure ends and the trampoline runs to its end: it relinquishes the
\* wrappers and returns check_exception(r) to the solver. With caml_callback
\* (errh) a raised exception leaves the trampoline at the call.
TrampolineReturn ==
    /\ tr.pc = "in_callback"
    /\ \E r \in ClosureOutcomes, b \in BOOLEAN :
         IF Is_exception_result(r) /\ ~UsesCallbackExn(tr.name)
         THEN /\ tr' = [tr EXCEPT !.pc = "unwound", !.out = r]
              /\ UNCHANGED ba
         ELSE /\ ba' = TrampolineRelinquish(tr.name, ba, TrampolineArgs(tr.name, tr.n))
              /\ tr' = [tr EXCEPT
                           !.pc = "returned",
                           !.out = r,
                           !.ret = IF tr.name = "errh" THEN 0 ELSE check_exception(r),
                           !.jcur = IF tr.name = "presetupfn" /\ ~Is_exception_result(r)
                                    THEN b ELSE "unset"]
    /\ UNCHANGED notTrampVars

(***************************************************************************)
(* Part 3: the custom-block sessions of cvode_serial.c and cvode_ml.c.     *)
(* A session is a custom block holding struct ml_cvode_data, with finalize *)
(* attached by caml_alloc_final. The closure fields hold the address given *)
(* by caml_named_value, which is the same for every session, so a field is *)
(* modelled by the handler's name and the root set by a set of names.      *)
(***************************************************************************)

MaxSessions == 2
Sessions == 1 .. MaxSessions

\* Most stub frames that can be on the stack at once (a closure called by a
\* callback can call stubs again).
MaxDepth == 2

\* The closure fields of struct ml_cvode_data / cvode_ml_data
\* (callback_ocaml_names); closure_errw is in cvode_ml.c only.
Handlers(unit) ==
    {"rhsfn", "rootsfn", "errh", "jacfn", "bandjacfn", "presetupfn", "presolvefn",
     "jactimesfn"} \cup (IF unit = "cvode_ml" THEN {"errw"} ELSE {})

\* The handlers the program registers in the runs explored.
RegHandlers == {"rhsfn", "errh"}

SerialUnits == {"cvode_serial", "cvode_ml"}

\* The fields of a block that c_init has not made yet.
NoSession ==
    [blk |-> "none", unit |-> "cvode_serial", reach |-> FALSE, cvode_mem |-> NULL,
     err_file |-> NULL, closures |-> {}]

\* A finalizer releases x: done is what the finalizers of this block have
\* released so far, twice what they have released again.
Release(st, x) ==
    [st EXCEPT !.done = @ \cup {x}, !.twice = @ \cup ({x} \cap st.done)]

\* Mutant: finalize_closure without *closure_field = NULL.
finalize_closure_keepsField(st, h) ==
    IF h \in st.closures
    THEN [Release(st, h) EXCEPT !.roots = @ \ {h}]
    ELSE st

\* finalize_closure(&field): remove the root and clear the field.
finalize_closure(st, h) ==
    IF h \in st.closures
    THEN [Release(st, h) EXCEPT !.closures = @ \ {h}, !.roots = @ \ {h}]
    ELSE st

\* finalize_closure applied to each of the fields hs in turn.
finalize_closures(st, hs) ==
    [st EXCEPT !.closures = {h \in @ : h \notin hs \/ h \in finalize_closure(st, h).closures},
               !.roots = {h \in @ : h \notin hs \/ h \in finalize_closure(st, h).roots},
               !.done = @ \cup {h \in hs : h \in finalize_closure(st, h).done},
               !.twice = @ \cup {h \in hs : h \in finalize_closure(st, h).twice}]

\* The part of finalize after the closures: CVodeFree(&cvode_mem) if it is
\* not NULL, fclose(err_file) if it is not NULL.
finalize_free(st) ==
    LET st1 == IF st.cvode_mem # NULL
               THEN [Release(st, "cvode_mem")
                       EXCEPT !.cvode_mem = NULL,
                              !.frees = @ + (IF st.cmem = "allocated" THEN 0 ELSE 1),
                              !.cmem = "freed"]
               ELSE st
    IN  IF st1.err_file # NULL
        THEN [Release(st1, "err_file") EXCEPT !.err_file = NULL, !.cfile = "closed"]
        ELSE st1

\* The state a finalizer works on: the fields of the block, and the roots,
\* solver memory and file they refer to. frees counts frees of memory that
\* was not allocated.
FinalizeState(s) ==
    [closures |-> ses[s].closures, cvode_mem |-> ses[s].cvode_mem,
     err_file |-> ses[s].err_file, roots |-> roots, cmem |-> cmem[s].st,
     cfile |-> cfile[s], frees |-> 0, raised |-> FALSE,
     done |-> log.done[s], twice |-> log.twice[s]]

\* Mutant: a finalizer that leaves the error file open.
finalize_keepsErrFile(unit, st) ==
    LET st1 == finalize_closures(st, Handlers(unit))
    IN  IF st1.cvode_mem # NULL
        THEN [st1 EXCEPT !.cvode_mem = NULL, !.cmem = "freed"]
        ELSE st1

\* finalize(vdata) of cvode_serial.c, and of cvode_ml.c, which gets data
\* through CVODE_DATA_FROM_ML and so raises at once when cvode_mem is NULL.
finalize(unit, st) ==
    IF unit = "cvode_ml" /\ st.cvode_mem = NULL
    THEN [st EXCEPT !.raised = TRUE]
    ELSE finalize_free(finalize_closures(st, Handlers(unit)))

\* cvode_data_from_ml(vdata) / CVODE_DATA_FROM_ML(data, vdata): whether the
\* stub goes on; otherwise it raises Failure "This session has been freed".
cvode_data_from_ml(d) == d.cvode_mem # NULL

Top == stack[Len(stack)]

\* OCaml code is running: the program itself, or a closure called back.
InOCaml == ~halted /\ (IF stack = <<>> THEN TRUE ELSE Top.kind = "callback")

StubFrames == {i \in 1 .. Len(stack) : stack[i].kind = "stub"}

\* The program can call a stub on s: it holds the session.
CanCall(s) == InOCaml /\ ses[s].blk = "live" /\ ses[s].reach

\* The history after a stub that makes no call that can call back has run
\* on session s and ended with out: "return", "raise", or "freed" for
\* Failure "This session has been freed". late records a stub that went past
\* cvode_data_from_ml on a session c_free had been called on.
\* done[s] and twice[s] are what the finalizer runs on s (c_free, the
\* collector) have released, and released again.
Logged(stub, s, out) ==
    [log EXCEPT !.late = @ \/ (s \in log.freed /\ out # "freed" /\ stub # "c_free")]

NoLog ==
    [late |-> FALSE, nullCall |-> FALSE, usedFreed |-> FALSE, badFree |-> FALSE,
     errhUnasked |-> FALSE, freed |-> {}, ehReq |-> [s \in Sessions |-> FALSE],
     done |-> [s \in Sessions |-> {}], twice |-> [s \in Sessions |-> {}]]

SerialIdle ==
    /\ ses = [s \in Sessions |-> NoSession]
    /\ cmem = [s \in Sessions |-> [st |-> "none", ehfun |-> FALSE]]
    /\ cfile = [s \in Sessions |-> "none"]
    /\ roots = {}
    /\ stack = <<>>
    /\ halted = FALSE
    /\ log = NoLog

\* The fields and resources of session s after a finalizer has run to st.
Finalized(s, st, blk) ==
    /\ ses' = [ses EXCEPT ![s].blk = blk,
                          ![s].closures = st.closures,
                          ![s].cvode_mem = st.cvode_mem,
                          ![s].err_file = st.err_file]
    /\ roots' = st.roots
    /\ cmem' = [cmem EXCEPT ![s].st = st.cmem]
    /\ cfile' = [cfile EXCEPT ![s] = st.cfile]

\* The flags CVodeInit, CVode and CVodeGetDky are let return.
InitFlags == {CVodeFlag.CV_SUCCESS, CVodeFlag.CV_ILL_INPUT}
LibFlags(fn) ==
    IF fn = "CVode"
    THEN {CVodeFlag.CV_SUCCESS, CVodeFlag.CV_ROOT_RETURN, CVodeFlag.CV_RHSFUNC_FAIL}
    ELSE {CVodeFlag.CV_SUCCESS, CVodeFlag.CV_BAD_K}

\* c_init / CVTYPE(init): CVodeCreate, the block, CVodeInit and its check.
\* On failure the stub frees data, which is inside the block and was not
\* made by malloc: the process stops, or goes on with the block as it was.
c_init ==
    /\ InOCaml
    /\ \E s \in Sessions, unit \in SerialUnits, created \in BOOLEAN,
          flag \in InitFlags, fault \in BOOLEAN :
         /\ ses[s].blk = "none"
         /\ \A x \in Sessions : x < s => ses[x].blk # "none" /\ ses[x].unit = unit
         /\ LET chkd == IF unit = "cvode_serial"
                        THEN check_flag("CVodeInit", flag, "data")
                        ELSE cvode_ml_check_flag("CVodeInit", flag, "data")
                failed == ~created \/ chkd.kind = "raise"
            IN  IF failed /\ fault
                THEN /\ halted' = TRUE
                     /\ UNCHANGED <<ses, cmem, log>>
                ELSE /\ fault = FALSE
                     /\ ses' = [ses EXCEPT ![s] =
                                  [blk |-> "live", unit |-> unit, reach |-> ~failed,
                                   cvode_mem |-> IF created THEN "mem" ELSE NULL,
                                   err_file |-> NULL, closures |-> {}]]
                     /\ cmem' = [cmem EXCEPT ![s] =
                                   [st |-> IF created THEN "allocated" ELSE "none",
                                    ehfun |-> FALSE]]
                     /\ log' = Logged("c_init", s, IF failed THEN "raise" ELSE "return")
                     /\ UNCHANGED halted
    /\ UNCHANGED <<cfile, roots, stack, notSerialVars>>

\* c_register_handler(vdata, handler).
c_register_handler ==
    /\ \E s \in Sessions, h \in RegHandlers :
         /\ CanCall(s)
         /\ IF ~cvode_data_from_ml(ses[s])
            THEN /\ log' = Logged("c_register_handler", s, "freed")
                 /\ UNCHANGED <<ses, roots>>
            ELSE /\ ses' = [ses EXCEPT ![s].closures = @ \cup {h}]
                 /\ roots' = (IF h \in ses[s].closures THEN roots \ {h} ELSE roots)
                                \cup {h}
                 /\ log' = Logged("c_register_handler", s, "return")
    /\ UNCHANGED <<cmem, cfile, stack, halted, notSerialVars>>

\* c_set_error_file(vdata, vpath, vtrunc): fclose of the old file, fopen,
\* uerror if it failed, CVodeSetErrFile.
c_set_error_file ==
    /\ \E s \in Sessions, opened \in BOOLEAN :
         /\ CanCall(s)
         /\ IF ~cvode_data_from_ml(ses[s])
            THEN /\ log' = Logged("c_set_error_file", s, "freed")
                 /\ UNCHANGED <<ses, cfile>>
            ELSE /\ ses' = [ses EXCEPT ![s].err_file = IF opened THEN "file" ELSE NULL]
                 /\ cfile' = [cfile EXCEPT ![s] =
                                IF opened THEN "open"
                                ELSE IF ses[s].err_file # NULL THEN "closed" ELSE @]
                 /\ log' = [Logged("c_set_error_file", s,
                                   IF opened THEN "return" ELSE "raise")
                              EXCEPT !.nullCall =
                                  @ \/ (opened /\ cmem[s].st # "allocated")]
    /\ UNCHANGED <<cmem, roots, stack, halted, notSerialVars>>

\* c_enable_error_handler / c_enable_err_handler_fn:
\* CVodeSetErrHandlerFn(cvode_mem, errh, data).
c_enable_error_handler ==
    /\ \E s \in Sessions :
         /\ CanCall(s)
         /\ IF ~cvode_data_from_ml(ses[s])
            THEN /\ log' = Logged("c_enable_error_handler", s, "freed")
                 /\ UNCHANGED cmem
            ELSE /\ cmem' = [cmem EXCEPT ![s].ehfun = TRUE]
                 /\ log' = [Logged("c_enable_error_handler", s, "return")
                              EXCEPT !.ehReq[s] = TRUE,
                                     !.nullCall = @ \/ cmem[s].st # "allocated"]
    /\ UNCHANGED <<ses, cfile, roots, stack, halted, notSerialVars>>

\* Mutant: the stub passes errh where it should pass NULL.
c_disable_err_handler_fn_keepsErrh ==
    /\ \E s \in Sessions :
         /\ CanCall(s)
         /\ ses[s].unit = "cvode_ml"
         /\ IF ~cvode_data_from_ml(ses[s])
            THEN /\ log' = Logged("c_disable_err_handler_fn", s, "freed")
                 /\ UNCHANGED cmem
            ELSE /\ cmem' = [cmem EXCEPT ![s].ehfun = TRUE]
                 /\ log' = [Logged("c_disable_err_handler_fn", s, "return")
                              EXCEPT !.ehReq[s] = FALSE,
                                     !.nullCall = @ \/ cmem[s].st # "allocated"]
    /\ UNCHANGED <<ses, cfile, roots, stack, halted, notSerialVars>>

\* c_disable_err_handler_fn (cvode_ml.c):
\* CVodeSetErrHandlerFn(cvode_mem, NULL, data).
c_disable_err_handler_fn ==
    /\ \E s \in Sessions :
         /\ CanCall(s)
         /\ ses[s].unit = "cvode_ml"
         /\ IF ~cvode_data_from_ml(ses[s])
            THEN /\ log' = Logged("c_disable_err_handler_fn", s, "freed")
                 /\ UNCHANGED cmem
            ELSE /\ cmem' = [cmem EXCEPT ![s].ehfun = FALSE]
                 /\ log' = [Logged("c_disable_err_handler_fn", s, "return")
                              EXCEPT !.ehReq[s] = FALSE,
                                     !.nullCall = @ \/ cmem[s].st # "allocated"]
    /\ UNCHANGED <<ses, cfile, roots, stack, halted, notSerialVars>>

\* c_free (cvode_serial.c): finalize(vdata); Store_field(vdata, 1, NULL).
c_free ==
    /\ \E s \in Sessions :
         /\ CanCall(s)
         /\ ses[s].unit = "cvode_serial"
         /\ LET st == finalize("cvode_serial", FinalizeState(s))
            IN  /\ Finalized(s, [st EXCEPT !.cvode_mem = NULL], "live")
                /\ log' = [Logged("c_free", s, "return")
                             EXCEPT !.freed = @ \cup {s},
                                    !.badFree = @ \/ st.frees > 0,
                                    !.done[s] = st.done,
                                    !.twice[s] = st.twice]
    /\ UNCHANGED <<stack, halted, notSerialVars>>

\* The stubs that call a library function which can call back, and the
\* function each calls: solver (c_advance, c_step) and c_get_dky.
LibraryOf(stub) == IF stub = "c_advance" THEN "CVode" ELSE "CVodeGetDky"

\* solver / c_get_dky up to the library call: cvode_data_from_ml, then
\* CVode(data->cvode_mem, ...) or CVodeGetDky(data->cvode_mem, ...).
StubCallsLibrary ==
    /\ \E s \in Sessions, stub \in {"c_advance", "c_get_dky"} :
         /\ CanCall(s)
         /\ Cardinality(StubFrames) < MaxDepth
         /\ IF ~cvode_data_from_ml(ses[s])
            THEN /\ log' = Logged(stub, s, "freed")
                 /\ UNCHANGED stack
            ELSE /\ stack' = stack \o <<[kind |-> "stub", s |-> s, name |-> stub],
                                        [kind |-> "lib", s |-> s, name |-> LibraryOf(stub)]>>
                 /\ log' = [log EXCEPT !.nullCall = @ \/ cmem[s].st # "allocated",
                                       !.late = @ \/ s \in log.freed]
    /\ UNCHANGED <<ses, cmem, cfile, roots, halted, notSerialVars>>

\* The callbacks a library function can make on session s: CVode calls the
\* right-hand side; any function that reports an error or a warning calls
\* the error handler installed by CVodeSetErrHandlerFn.
LibraryCallbacks(fn, s) ==
    (IF fn = "CVode" THEN {"rhsfn"} ELSE {}) \cup
    (IF cmem[s].ehfun THEN {"errh"} ELSE {})

\* The library calls a trampoline (f, errh), which calls *closure. The
\* library reading solver memory that has been freed, and the trampoline
\* reading a closure field that is NULL, are faults: the process stops, or
\* (for freed memory that still holds its contents) goes on.
LibraryCallsBack ==
    /\ ~halted
    /\ stack # <<>>
    /\ Top.kind = "lib"
    /\ \E cb \in LibraryCallbacks(Top.name, Top.s), fault \in BOOLEAN :
         LET s == Top.s
             onFreed == cmem[s].st # "allocated"
         IN  /\ log' = [log EXCEPT !.usedFreed = @ \/ onFreed,
                                   !.errhUnasked = @ \/ (cb = "errh" /\ ~log.ehReq[s])]
             /\ IF cb \notin ses[s].closures \/ (onFreed /\ fault)
                THEN halted' = TRUE /\ UNCHANGED stack
                ELSE /\ fault = FALSE
                     /\ stack' = Append(stack, [kind |-> "callback", s |-> s, name |-> cb])
                     /\ UNCHANGED halted
    /\ UNCHANGED <<ses, cmem, cfile, roots, notSerialVars>>

\* The closure ends. From f the result goes back to the library through
\* check_exception; from errh, which uses caml_callback, an exception
\* leaves errh, the library function and the stub at once.
ClosureEnds ==
    /\ ~halted
    /\ stack # <<>>
    /\ Top.kind = "callback"
    /\ \E r \in ClosureOutcomes :
         IF Is_exception_result(r) /\ ~UsesCallbackExn(Top.name)
         THEN stack' = SubSeq(stack, 1, Len(stack) - 3)
         ELSE stack' = SubSeq(stack, 1, Len(stack) - 1)
    /\ UNCHANGED <<ses, cmem, cfile, roots, halted, log, notSerialVars>>

\* The library function returns its flag and the stub checks it
\* (check_flag("CVode", flag, NULL)) and returns or raises.
LibraryReturns ==
    /\ ~halted
    /\ stack # <<>>
    /\ Top.kind = "lib"
    /\ \E flag \in LibFlags(Top.name) :
         /\ check_flag(Top.name, flag, NULL).kind \in {"return", "raise"}
         /\ stack' = SubSeq(stack, 1, Len(stack) - 2)
         /\ log' = [log EXCEPT !.usedFreed = @ \/ cmem[Top.s].st # "allocated"]
    /\ UNCHANGED <<ses, cmem, cfile, roots, halted, notSerialVars>>

\* The program gives up its references to a session.
ProgramDrops ==
    /\ \E s \in Sessions :
         /\ CanCall(s)
         /\ ses' = [ses EXCEPT ![s].reach = FALSE]
    /\ UNCHANGED <<cmem, cfile, roots, stack, halted, log, notSerialVars>>

\* The collector finds the block of s unreachable (the program holds no
\* reference and no stub frame has it as a CAMLparam) and runs its finalizer.
CollectorFinalizes ==
    /\ InOCaml
    /\ \E s \in Sessions :
         /\ ses[s].blk = "live"
         /\ ~ses[s].reach
         /\ \A i \in StubFrames : stack[i].s # s
         /\ LET st == finalize(ses[s].unit, FinalizeState(s))
            IN  /\ Finalized(s, st, "reclaimed")
                /\ log' = [log EXCEPT !.badFree = @ \/ st.frees > 0,
                                       !.done[s] = st.done,
                                       !.twice[s] = st.twice]
    /\ UNCHANGED <<stack, halted, notSerialVars>>

(***************************************************************************)
(* Part 4.  Weak-reference sessions.                                       *)
(*                                                                         *)
(* cvode_ml.h describes the session as an OCaml record that holds the      *)
(* solver memory and a "backref": a malloc'ed generational global root     *)
(* that points to a Weak.t of size 1, which points back to the record.     *)
(* The solver's user data is the backref, and a trampoline reaches the     *)
(* record with WEAK_DEREF.  cvodes_ml_nvec.c holds the stubs and the       *)
(* trampolines of this design for the sensitivity and adjoint interface.   *)
(* The creation of a forward session, the backward solve, the finaliser    *)
(* and the OCaml links between a parent and its backward sessions are not  *)
(* among the C sources; they follow the design comments of cvode_ml.h and  *)
(* idas_ml.h.                                                              *)
(*                                                                         *)
(* A collection cycle may run between any two steps: OCaml code allocates, *)
(* and so do the trampolines before they call the closure (quadrhsfn and   *)
(* brhsfn allocate their arguments while they hold the weak reference      *)
(* only).                                                                  *)
(***************************************************************************)
MaxRecords == 2

Records == 1..MaxRecords

\* The number of library calls that may be in progress at once.
MaxNesting == 1

\* A slot of the OCaml heap that holds no session record yet.
\*   st        "none", "live", "final" (unreachable, finaliser pending), "gone"
\*   held      the user program holds a reference to the record
\*   weak      the Weak.t of the session: "none", "full" or "empty"
\*   backref   what the global root points to: NULL (no root), "weakref",
\*             "record", or "destroyed" once unregistered and freed
\*   cvode     the solver memory: "none", "alloc", "freed", or "bmem" for the
\*             memory CVodeGetAdjCVodeBmem returns, owned by the parent
\*   frees     how many times the solver memory has been passed to the Free call
NoRecord ==
    [st |-> "none", kind |-> "fwd", parent |-> 0, bsessions |-> {},
     held |-> FALSE, weak |-> "none", backref |-> NULL, cvode |-> "none",
     frees |-> 0, err_file |-> NULL]

NoHist == [deadDeref |-> FALSE, fault |-> FALSE]

WeakIdle == rec = [s \in Records |-> NoRecord] /\ calls = <<>> /\ hist = NoHist

CallTop == calls[Len(calls)]

\* OCaml code is running: the main program, or a closure called by a trampoline.
OCamlRuns == IF calls = <<>> THEN TRUE ELSE CallTop.kind = "cb"

LibFrames == {i \in DOMAIN calls : calls[i].kind = "lib"}

\* Session records are allocated in order.
FreshRecord(s) ==
    /\ rec[s].st = "none"
    /\ \A x \in Records : x < s => rec[x].st # "none"

\* The records one step away from the records of S: the parent of a backward
\* session and the backward sessions listed by a parent.
RecordLinks(h, S) ==
    S \cup {h[c].parent : c \in {x \in S : h[x].kind = "bwd"}}
      \cup UNION {h[p].bsessions : p \in S}

RECURSIVE Mark(_, _)
Mark(h, S) ==
    LET T == RecordLinks(h, S) IN IF T = S THEN S ELSE Mark(h, T)

\* CAMLparam and CAMLlocal variables of the frames in progress.
StackRoots == UNION {calls[i].roots : i \in DOMAIN calls}

ProgramRoots == {s \in Records : rec[s].held} \cup StackRoots

\* A generational global root is a GC root: what it points to stays alive.
\* A root that points to the Weak.t keeps the Weak.t, not the record.
GlobalRoots == {s \in Records : rec[s].backref = "record"}

ProgramReachable == Mark(rec, ProgramRoots)

GcReachable == Mark(rec, ProgramRoots \cup GlobalRoots)

\* WEAK_DEREF(session, *backref) on the root of session s: the record, the
\* failure "weak reference is dead", or a read through a root that was freed.
WEAK_DEREF(h, s) ==
    CASE h[s].backref = "weakref" ->
             IF h[s].weak = "full" THEN {"session"} ELSE {"dead"}
      [] h[s].backref = "record" -> {"session"}
      [] OTHER -> {"dead", "fault"}

\* The record the OCaml side builds around a new solver memory and its root.
session_init(h, s) ==
    [h EXCEPT ![s] = [st |-> "live", kind |-> "fwd", parent |-> 0,
                      bsessions |-> {}, held |-> TRUE, weak |-> "full",
                      backref |-> "weakref", cvode |-> "alloc", frees |-> 0,
                      err_file |-> NULL]]

adj_init_backward_strongRoot(h, p, s) ==
    [h EXCEPT ![s] = [st |-> "live", kind |-> "bwd", parent |-> 0,
                      bsessions |-> {}, held |-> TRUE, weak |-> "full",
                      backref |-> "record", cvode |-> "bmem", frees |-> 0,
                      err_file |-> NULL]]

\* adj_init_backward: CVodeCreateB and CVodeInitB on the parent's memory, a
\* root that holds the weak reference, and the tuple (bmem, which, backref,
\* no err_file) from which the OCaml side builds the backward session.
adj_init_backward(h, p, s) ==
    [h EXCEPT ![s] = [st |-> "live", kind |-> "bwd", parent |-> 0,
                      bsessions |-> {}, held |-> TRUE, weak |-> "full",
                      backref |-> "weakref", cvode |-> "bmem", frees |-> 0,
                      err_file |-> NULL]]

bsession_link_noChildList(h, p, s) ==
    [h EXCEPT ![s].parent = p]

\* The OCaml side of init_backward: the child refers to its parent and the
\* parent adds the child to its list of backward sessions.
bsession_link(h, p, s) ==
    [h EXCEPT ![s].parent = p, ![p].bsessions = @ \cup {s}]

\* The backward problems CVodeCreateB has made in the memory of parent p.
BProblems(h, p) ==
    {c \in Records : h[c].st # "none" /\ h[c].kind = "bwd" /\ h[c].parent = p}

StubRoots_noParam(vdata) == {}

\* CAMLparam3(vdata, vtout, vyret): the session record is a root of the stub.
StubRoots(vdata) == {vdata}

session_finalize_bwdFrees(h, s) ==
    LET h1 == [h EXCEPT ![s].st = "gone", ![s].backref = "destroyed"]
        o  == IF h[s].kind = "fwd" THEN s ELSE h[s].parent
    IN  [h1 EXCEPT ![o].cvode = "freed",
                   ![o].frees = IF @ < 2 THEN @ + 1 ELSE @,
                   ![o].err_file = IF @ = "open" THEN "closed" ELSE @]

\* The finaliser of a session record: it unregisters and frees the root;
\* for a forward session it frees the solver memory and closes the error
\* file; for a backward session it does neither.
session_finalize(h, s) ==
    LET h1 == [h EXCEPT ![s].st = "gone", ![s].backref = "destroyed"]
    IN  IF h[s].kind = "fwd"
        THEN [h1 EXCEPT ![s].cvode = "freed",
                        ![s].frees = IF @ < 2 THEN @ + 1 ELSE @,
                        ![s].err_file = IF @ = "open" THEN "closed" ELSE @]
        ELSE h1

\* A forward session is created: CVodeInit makes the solver memory and the
\* root, the OCaml side the Weak.t and the record.
SessionInit ==
    /\ OCamlRuns
    /\ \E s \in Records :
         /\ FreshRecord(s)
         /\ rec' = session_init(rec, s)
    /\ UNCHANGED <<calls, hist>>
    /\ UNCHANGED notWeakVars

\* init_backward on a parent the program holds.
InitBackward ==
    /\ OCamlRuns
    /\ \E p \in Records, s \in Records :
         /\ rec[p].st = "live" /\ rec[p].held /\ rec[p].kind = "fwd"
         /\ FreshRecord(s)
         /\ rec' = bsession_link(adj_init_backward(rec, p, s), p, s)
    /\ UNCHANGED <<calls, hist>>
    /\ UNCHANGED notWeakVars

\* set_error_file on a forward session: the previous file is closed and the
\* new one opened.  A backward session has no such operation.
SetErrorFile ==
    /\ OCamlRuns
    /\ \E s \in Records :
         /\ rec[s].st = "live" /\ rec[s].held /\ rec[s].kind = "fwd"
         /\ rec' = [rec EXCEPT ![s].err_file = "open"]
    /\ UNCHANGED <<calls, hist>>
    /\ UNCHANGED notWeakVars

\* The user program abandons its references to a session record.
ProgramAbandons ==
    /\ OCamlRuns
    /\ \E s \in Records :
         /\ rec[s].held
         /\ rec' = [rec EXCEPT ![s].held = FALSE]
    /\ UNCHANGED <<calls, hist>>
    /\ UNCHANGED notWeakVars

\* adj_forward_normal(vdata, ...): the stub roots its parameters and calls
\* CVodeF on the session's memory.
ForwardSolve ==
    /\ OCamlRuns
    /\ Cardinality(LibFrames) < MaxNesting
    /\ \E s \in Records :
         /\ rec[s].st = "live" /\ rec[s].held /\ rec[s].kind = "fwd"
         /\ calls' = Append(calls, [kind |-> "lib", dir |-> "F", s |-> s,
                                    roots |-> StubRoots(s), gc |-> FALSE])
    /\ UNCHANGED <<rec, hist>>
    /\ UNCHANGED notWeakVars

\* The backward solve on a parent: the stub roots the parent and the library
\* integrates every backward problem made in the parent's memory.
BackwardSolve ==
    /\ OCamlRuns
    /\ Cardinality(LibFrames) < MaxNesting
    /\ \E p \in Records :
         /\ rec[p].st = "live" /\ rec[p].held /\ rec[p].kind = "fwd"
         /\ BProblems(rec, p) # {}
         /\ calls' = Append(calls, [kind |-> "lib", dir |-> "B", s |-> p,
                                    roots |-> StubRoots(p), gc |-> FALSE])
    /\ UNCHANGED <<rec, hist>>
    /\ UNCHANGED notWeakVars

\* The sessions whose trampolines the library call of frame f may enter.
CallbackTargets(f) == IF f.dir = "F" THEN {f.s} ELSE BProblems(rec, f.s)

\* The library calls a trampoline (sensrhsfn, brhsfn1) with the root of the
\* session as user data.  The trampoline dereferences the weak reference,
\* keeps the record in a local root and calls the closure; a dead reference
\* raises Failure, which unwinds to the OCaml caller.
SolverCallsBack ==
    /\ calls # <<>>
    /\ CallTop.kind = "lib"
    /\ \E t \in CallbackTargets(CallTop) :
         \E o \in (IF rec[CallTop.s].cvode = "alloc"
                   THEN WEAK_DEREF(rec, t) ELSE {"fault"}) :
            CASE o = "session" ->
                   /\ calls' = Append(calls, [kind |-> "cb", dir |-> CallTop.dir,
                                              s |-> t, roots |-> {t},
                                              gc |-> FALSE])
                   /\ hist' = hist
              [] o = "dead" ->
                   /\ calls' = <<>>
                   /\ hist' = [hist EXCEPT !.deadDeref = TRUE]
              [] OTHER ->
                   /\ calls' = <<>>
                   /\ hist' = [hist EXCEPT !.fault = TRUE]
    /\ UNCHANGED rec
    /\ UNCHANGED notWeakVars

\* The closure returns to its trampoline, which returns to the library.
ClosureReturns ==
    /\ calls # <<>>
    /\ CallTop.kind = "cb"
    /\ calls' = SubSeq(calls, 1, Len(calls) - 1)
    /\ UNCHANGED <<rec, hist>>
    /\ UNCHANGED notWeakVars

\* CVodeF or the backward solve returns and the stub returns to OCaml.
SolverReturns ==
    /\ calls # <<>>
    /\ CallTop.kind = "lib"
    /\ calls' = SubSeq(calls, 1, Len(calls) - 1)
    /\ UNCHANGED <<rec, hist>>
    /\ UNCHANGED notWeakVars

\* The live records no root reaches.
Garbage == {s \in Records : rec[s].st = "live" /\ s \notin GcReachable}

\* A collection cycle: every record that no root reaches is found at once;
\* its weak reference is emptied and its finaliser becomes due.
GcCycle ==
    /\ Garbage # {} \/ \E i \in DOMAIN calls : ~calls[i].gc
    /\ rec' = [s \in Records |->
                 IF s \in Garbage
                 THEN [rec[s] EXCEPT !.st = "final", !.weak = "empty"]
                 ELSE rec[s]]
    /\ calls' = [i \in DOMAIN calls |-> [calls[i] EXCEPT !.gc = TRUE]]
    /\ UNCHANGED hist
    /\ UNCHANGED notWeakVars

\* The collector runs the finaliser of a record it found unreachable.
Finalizer(s) ==
    /\ rec[s].st = "final"
    /\ rec' = session_finalize(rec, s)
    /\ UNCHANGED <<calls, hist>>
    /\ UNCHANGED notWeakVars

(***************************************************************************)
(* Part 5: the solver step (solver, and the stubs c_advance, c_step of     *)
(* cvode_serial.c and normal, one_step of cvode_ml_nvec.c).                *)
(***************************************************************************)

\* The largest time CVode hands back through &t.
MaxTime == 1
Times == 0 .. MaxTime

\* The onestep argument each stub passes to solver.
Onestep(stub) == IF stub \in {"c_step", "one_step"} THEN 1 ELSE 0

\* The switch (flag) of solver: the second field of the result tuple.
SolverResult(flag) ==
    CASE flag = CVodeFlag.CV_ROOT_RETURN  -> "RootsFound"
      [] flag = CVodeFlag.CV_TSTOP_RETURN -> "StopTimeReached"
      [] OTHER                            -> "Continue"

\* Mutant: the flag CVode returned is not checked before the result is built.
solver_noCheck(unit, mem, flag, t) ==
    [called |-> TRUE, check |-> Returned, value |-> <<t, SolverResult(flag)>>]

\* solver: cvode_serial.c first takes the session data (cvode_data_from_ml
\* raises on a freed session), then both units call CVode, check its flag
\* and, if the check returns, build the tuple (t, result).
solver(unit, mem, flag, t) ==
    IF unit = "cvode_serial" /\ mem = NULL
    THEN [called |-> FALSE,
          check |-> Failwith(<<"This session has been freed">>, NULL),
          value |-> <<>>]
    ELSE LET c == IF unit = "cvode_serial"
                  THEN check_flag("CVode", flag, NULL)
                  ELSE CHECK_FLAG("CVode", flag)
         IN  [called |-> TRUE, check |-> c,
              value |-> IF c.kind = "raise" THEN <<>>
                        ELSE <<t, SolverResult(flag)>>]

NoStep == [unit |-> "none", stub |-> "none", onestep |-> 0, flag |-> 0,
           called |-> FALSE, check |-> Returned, value |-> <<>>]

StepIdle == step = NoStep

\* The record of a step made by stub: solver(vdata, nextt, y, onestep).
StepOf(unit, stub, mem, flag, t) ==
    LET r == solver(unit, mem, flag, t)
    IN  [unit |-> unit, stub |-> stub, onestep |-> Onestep(stub), flag |-> flag,
         called |-> r.called, check |-> r.check, value |-> r.value]

\* The flags CVode may hand back: none when the session has no memory.
StepFlags(mem) == IF mem = NULL THEN {0} ELSE Flags

\* c_advance: solver(vdata, nextt, y, 0) on a session that may have been freed.
c_advance ==
    /\ \E mem \in {NULL, "cvode_mem"} :
         \E flag \in StepFlags(mem), t \in Times :
            step' = StepOf("cvode_serial", "c_advance", mem, flag, t)
    /\ UNCHANGED notStepVars

\* c_step: solver(vdata, nextt, y, 1).
c_step ==
    /\ \E mem \in {NULL, "cvode_mem"} :
         \E flag \in StepFlags(mem), t \in Times :
            step' = StepOf("cvode_serial", "c_step", mem, flag, t)
    /\ UNCHANGED notStepVars

\* normal: solver(vdata, nextt, y, 0) of cvode_ml_nvec.c.
normal ==
    /\ \E flag \in Flags, t \in Times :
         step' = StepOf("cvode_ml_nvec", "normal", "cvode_mem", flag, t)
    /\ UNCHANGED notStepVars

\* one_step: solver(vdata, nextt, y, 1) of cvode_ml_nvec.c.
one_step ==
    /\ \E flag \in Flags, t \in Times :
         step' = StepOf("cvode_ml_nvec", "one_step", "cvode_mem", flag, t)
    /\ UNCHANGED notStepVars

(***************************************************************************)
(* The specifications.                                                     *)
(***************************************************************************)

InitFlag == FlagIdle /\ TrampIdle /\ SerialIdle /\ WeakIdle /\ StepIdle

NextFlag == MlStubCheck \/ SerialStubCheck

SpecFlag == InitFlag /\ [][NextFlag]_vars

InitTramp == FlagIdle /\ TrampIdle /\ SerialIdle /\ WeakIdle /\ StepIdle

NextTramp == TrampolineEnter \/ ClosureRetains \/ TrampolineReturn

SpecTramp == InitTramp /\ [][NextTramp]_vars

InitSerial == FlagIdle /\ TrampIdle /\ SerialIdle /\ WeakIdle /\ StepIdle

NextSerial ==
    \/ c_init
    \/ c_register_handler
    \/ c_set_error_file
    \/ c_enable_error_handler
    \/ c_disable_err_handler_fn
    \/ c_free
    \/ StubCallsLibrary
    \/ LibraryCallsBack
    \/ ClosureEnds
    \/ LibraryReturns
    \/ ProgramDrops
    \/ CollectorFinalizes

SpecSerial == InitSerial /\ [][NextSerial]_vars

InitGC == FlagIdle /\ TrampIdle /\ SerialIdle /\ WeakIdle /\ StepIdle

NextGC ==
    \/ SessionInit
    \/ InitBackward
    \/ SetErrorFile
    \/ ProgramAbandons
    \/ ForwardSolve
    \/ BackwardSolve
    \/ SolverCallsBack
    \/ ClosureReturns
    \/ SolverReturns
    \/ GcCycle
    \/ \E s \in Records : Finalizer(s)

SpecGC == InitGC /\ [][NextGC]_vars

\* The collector is fair: a cycle that has garbage to find eventually runs,
\* and a finaliser that is due eventually runs.
SpecGCFair ==
    /\ InitGC
    /\ [][NextGC]_vars
    /\ WF_vars(GcCycle)
    /\ \A s \in Records : WF_vars(Finalizer(s))

InitStep == FlagIdle /\ TrampIdle /\ SerialIdle /\ WeakIdle /\ StepIdle

NextStep == c_advance \/ c_step \/ normal \/ one_step

SpecStep == InitStep /\ [][NextStep]_vars

\* The registration protocol of the session stubs: c_enable_error_handler is
\* called on a session whose error handler has been registered ...
enable_after_register ==
    /\ c_enable_error_handler
    /\ \A s \in Sessions : cmem'[s] # cmem[s] => "errh" \in ses[s].closures

\* ... and a solver step is made on a session whose right-hand side has been
\* registered.
step_after_register ==
    /\ StubCallsLibrary
    /\ (Len(stack') > Len(stack) /\ stack'[Len(stack')].name = "CVode")
          => "rhsfn" \in ses[stack'[Len(stack')].s].closures

InitProtocol == FlagIdle /\ TrampIdle /\ SerialIdle /\ WeakIdle /\ StepIdle

\* The program of SpecSerial, held to the registration protocol.
NextProtocol ==
    \/ c_init
    \/ c_register_handler
    \/ c_set_error_file
    \/ enable_after_register
    \/ c_disable_err_handler_fn
    \/ c_free
    \/ step_after_register
    \/ LibraryCallsBack
    \/ ClosureEnds
    \/ LibraryReturns
    \/ ProgramDrops
    \/ CollectorFinalizes

SpecProtocol == InitProtocol /\ [][NextProtocol]_vars

(***************************************************************************)
(* Claims about the flag check.                                            *)
(***************************************************************************)

\* C1: a flag check returns to its stub exactly when the flag is CV_SUCCESS,
\* CV_ROOT_RETURN or CV_TSTOP_RETURN; for every other flag value it raises
\* an OCaml exception, so the stub does not continue.
C1_CheckReturnsIffOk ==
    chk.unit # "none" =>
        /\ (chk.out.kind = "return") <=> (chk.flag \in OkFlags)
        /\ (chk.out.kind = "raise")  <=> (chk.flag \notin OkFlags)
        /\ chk.out.kind = "raise" => chk.out.exn # "none"

\* C1 witness: a check of a failing flag has raised, in each of the two units.
C1_Witness ==
    /\ chk.unit = "cvode_ml"
    /\ chk.flag = CVodeFlag.CV_MEM_NULL
    /\ chk.out.kind = "raise"

C7_WrappersRelinquished ==
    (tr.name \in VecTrampolines /\ tr.pc # "in_callback") =>
        /\ tr.pc = "returned"
        /\ \A v \in DOMAIN ba : ba[v] = 0
        /\ tr.kept # NULL => ba[tr.kept] = 0

\* C7 witness: presolvefn has returned after its closure raised and
\* retained the wrapper of tmp, which had length MaxVecLen during the call.
C7_Witness ==
    /\ tr.name = "presolvefn"
    /\ tr.pc = "returned"
    /\ tr.out = "Not_found"
    /\ tr.kept = "tmp"
    /\ tr.n = MaxVecLen
    /\ DOMAIN ba = {"y", "fy", "tmp", "r", "z"}

(***************************************************************************)
(* Claims about the custom-block sessions.                                 *)
(***************************************************************************)

\* C5: a session whose block has been reclaimed has no C-side resource
\* left: its solver memory is not allocated, its error file is not open,
\* its closure fields are NULL, and every address still registered as a
\* global root is held by a session that has not been reclaimed.
C5_ReclaimedHoldsNothing ==
    /\ \A s \in Sessions :
          ses[s].blk = "reclaimed" =>
              /\ cmem[s].st # "allocated"
              /\ cfile[s] # "open"
              /\ ses[s].closures = {}
              /\ ses[s].cvode_mem = NULL
              /\ ses[s].err_file = NULL
    /\ roots \subseteq UNION {ses[s].closures : s \in {x \in Sessions : ses[x].blk = "live"}}

\* C5 witness: a session that had solver memory, an error file and a root
\* has been reclaimed; another session still names the root it removed.
C5_Witness ==
    \E s, x \in Sessions :
        /\ ses[s].blk = "reclaimed"
        /\ cmem[s].st = "freed"
        /\ cfile[s] = "closed"
        /\ ses[x].blk = "live"
        /\ "errh" \in ses[x].closures
        /\ "errh" \notin roots

\* C6 as stated: a callback runs only inside a CVode call made by the
\* solver stub.
C6_OnlyDuringSolverStep ==
    \A i \in 1 .. Len(stack) :
        stack[i].kind = "callback" =>
            /\ i > 2
            /\ stack[i - 1].kind = "lib"
            /\ stack[i - 1].name = "CVode"
            /\ stack[i - 2].kind = "stub"
            /\ stack[i - 2].name = "c_advance"

\* C6: a callback runs only inside a library call made by a stub that has
\* not returned or raised: the right-hand side only inside the CVode call of
\* the solver stub, the error handler inside any library call on a session
\* whose error handler the program has enabled.
C6_CallbacksInsideLibraryCalls ==
    /\ ~log.errhUnasked
    /\ \A i \in 1 .. Len(stack) :
          stack[i].kind = "callback" =>
              /\ i > 2
              /\ stack[i - 1].kind = "lib"
              /\ stack[i - 1].s = stack[i].s
              /\ stack[i - 2].kind = "stub"
              /\ stack[i - 2].s = stack[i].s
              /\ stack[i - 1].name = LibraryOf(stack[i - 2].name)
              /\ stack[i].name # "errh" =>
                    stack[i - 1].name = "CVode" /\ stack[i - 2].name = "c_advance"
    /\ \A i \in 1 .. Len(stack) :
          stack[i].kind = "lib" => i > 1 /\ stack[i - 1].kind = "stub"

\* C6 witness: the error handler's closure is running inside CVodeGetDky,
\* called by c_get_dky.
C6_Witness ==
    /\ ~halted
    /\ Len(stack) = 3
    /\ stack[3].kind = "callback" /\ stack[3].name = "errh"
    /\ stack[2].name = "CVodeGetDky"
    /\ stack[1].name = "c_get_dky"
    /\ log.ehReq[stack[3].s]

\* C8: no stub goes past cvode_data_from_ml on a session c_free has been
\* called on, no library function is called with solver memory that is NULL
\* or freed, and none runs on solver memory that has been freed.
C8_NoLibraryOnFreedMemory ==
    /\ ~log.late
    /\ ~log.nullCall
    /\ ~log.usedFreed

\* C8, the part about later stubs alone: none goes past cvode_data_from_ml
\* and none calls the library with NULL or freed solver memory.
C8_LaterStubsRaise ==
    /\ ~log.late
    /\ ~log.nullCall
    /\ \A s \in log.freed : ses[s].cvode_mem = NULL /\ cmem[s].st = "freed"

(***************************************************************************)
(* Claims about the weak-reference sessions.                               *)
(***************************************************************************)

\* C3: whenever a callback trampoline runs, the weak reference reached through
\* the user data still points to a live session record.  No WEAK_DEREF has
\* raised "weak reference is dead", and while a library call is in progress
\* WEAK_DEREF succeeds for every session whose trampolines the call may enter,
\* whatever collection cycles have run since the stub was entered.
C3_WeakAliveInCallbacks ==
    /\ ~hist.deadDeref
    /\ \A i \in DOMAIN calls :
         calls[i].kind = "lib" =>
           \A t \in CallbackTargets(calls[i]) : WEAK_DEREF(rec, t) = {"session"}

\* A trampoline of a forward solve has entered its closure after a collection
\* cycle ran during the library call, for a session the program no longer
\* holds.
C3_Witness ==
    \E i \in DOMAIN calls :
       /\ calls[i].kind = "lib" /\ calls[i].dir = "F" /\ calls[i].gc
       /\ ~rec[calls[i].s].held
       /\ i < Len(calls)
       /\ calls[i + 1].kind = "cb" /\ ~calls[i + 1].gc

\* C4: a live session record that the user program can no longer reach
\* (through its own references, the frames in progress and the links between
\* records) is eventually reclaimed and its root destroyed, when the
\* collector is fair: no global root keeps it alive.
C4_AbandonedEventuallyReclaimed ==
    \A s \in Records :
       (rec[s].st = "live" /\ s \notin ProgramReachable)
          ~> (rec[s].st = "gone" /\ rec[s].backref = "destroyed")

\* A backward session and its parent have been abandoned and reclaimed, and
\* their roots destroyed.
C4_Witness ==
    \E c \in Records :
       /\ rec[c].kind = "bwd" /\ rec[c].st = "gone"
       /\ rec[c].backref = "destroyed"
       /\ rec[rec[c].parent].st = "gone"
       /\ rec[rec[c].parent].backref = "destroyed"

\* C9: a backward session is not collected while its parent is reachable, the
\* parent is not collected while a backward session is reachable, parent and
\* backward sessions are found unreachable in the same cycle, and during a
\* backward solve on the parent every backward session it may call back is a
\* live record with a full weak reference.
C9_ParentAndChildrenCollectedTogether ==
    /\ \A c \in Records :
         (rec[c].st # "none" /\ rec[c].kind = "bwd") =>
            /\ rec[c].parent \in ProgramReachable => rec[c].st = "live"
            /\ c \in ProgramReachable => rec[rec[c].parent].st = "live"
            /\ (rec[c].st = "live") = (rec[rec[c].parent].st = "live")
    /\ \A i \in DOMAIN calls :
         (calls[i].kind = "lib" /\ calls[i].dir = "B") =>
            \A t \in CallbackTargets(calls[i]) :
               rec[t].st = "live" /\ rec[t].weak = "full"

\* A backward solve on the parent has entered the closure of a backward
\* session that the program no longer holds, after a collection cycle ran
\* during the solve.
C9_Witness ==
    \E i \in DOMAIN calls :
       /\ calls[i].kind = "lib" /\ calls[i].dir = "B" /\ calls[i].gc
       /\ i < Len(calls)
       /\ calls[i + 1].kind = "cb" /\ ~calls[i + 1].gc
       /\ ~rec[calls[i + 1].s].held

\* C10: the finaliser of a backward session frees no solver memory and closes
\* no error file.  The memory of a forward session, which backs its backward
\* sessions too, has been freed exactly once when the parent's finaliser has
\* run and not at all before, in whatever order the finalisers run; its error
\* file is closed by that finaliser only.
C10_MemoryFreedOnceByParent ==
    \A s \in Records :
       /\ (rec[s].st # "none" /\ rec[s].kind = "fwd") =>
            /\ rec[s].frees = IF rec[s].st = "gone" THEN 1 ELSE 0
            /\ (rec[s].cvode = "freed") = (rec[s].st = "gone")
            /\ (rec[s].err_file = "closed") => (rec[s].st = "gone")
       /\ (rec[s].st # "none" /\ rec[s].kind = "bwd") =>
            /\ rec[s].frees = 0
            /\ rec[s].cvode = "bmem"
            /\ rec[s].err_file = NULL

\* The finaliser of a backward session has run before the finaliser of its
\* parent, whose memory is still allocated and whose error file is still open.
C10_Witness ==
    \E c \in Records :
       /\ rec[c].kind = "bwd" /\ rec[c].st = "gone"
       /\ rec[rec[c].parent].st = "final"
       /\ rec[rec[c].parent].cvode = "alloc"
       /\ rec[rec[c].parent].err_file = "open"

\* The other order: the parent's finaliser has run, freeing the memory once,
\* and the finaliser of a backward session is still due.
C10_ParentFirst ==
    \E c \in Records :
       /\ rec[c].kind = "bwd" /\ rec[c].st = "final"
       /\ rec[rec[c].parent].st = "gone"
       /\ rec[rec[c].parent].frees = 1

(***************************************************************************)
(* Claims about the solver step.                                           *)
(***************************************************************************)

\* C11: a solver step that called CVode returns (t, RootsFound) exactly when
\* the flag was CV_ROOT_RETURN, (t, StopTimeReached) exactly when it was
\* CV_TSTOP_RETURN and (t, Continue) exactly when it was CV_SUCCESS; for
\* every other flag it raises and returns no result.
C11_StepResultFollowsFlag ==
    step.called =>
       /\ (step.value # <<>> /\ step.value[2] = "RootsFound")
             <=> step.flag = CVodeFlag.CV_ROOT_RETURN
       /\ (step.value # <<>> /\ step.value[2] = "StopTimeReached")
             <=> step.flag = CVodeFlag.CV_TSTOP_RETURN
       /\ (step.value # <<>> /\ step.value[2] = "Continue")
             <=> step.flag = CVodeFlag.CV_SUCCESS
       /\ step.flag \notin OkFlags
             <=> (step.check.kind = "raise" /\ step.value = <<>>)
       /\ step.value # <<>> => step.value[1] \in Times

\* c_step came back from a CVode that stopped at the stop time, with the pair
\* (1, StopTimeReached).
C11_Witness ==
    /\ step.stub = "c_step"
    /\ step.called
    /\ step.flag = CVodeFlag.CV_TSTOP_RETURN
    /\ step.value = <<1, "StopTimeReached">>

\* one_step met a flag outside the three and raised.
C11_RaiseWitness ==
    /\ step.stub = "one_step"
    /\ step.flag = CVodeFlag.CV_WARNING
    /\ step.check.kind = "raise"
    /\ step.value = <<>>

(***************************************************************************)
(* Claims about what a trampoline hands back to the solver.                *)
(***************************************************************************)

\* C12: a trampoline that went through check_exception returned 0 exactly
\* when its closure returned normally, 1 exactly when the closure raised
\* RecoverableFailure and -1 exactly when it raised any other exception,
\* whatever the unit, the trampoline, the vector length and what the closure
\* kept.
C12_ReturnCodeFollowsOutcome ==
    (tr.pc = "returned" /\ UsesCallbackExn(tr.name)) =>
       /\ tr.ret \in {0, 1, 0 - 1}
       /\ tr.ret = 0 <=> tr.out = "normal"
       /\ tr.ret = 1 <=> tr.out = "RecoverableFailure"
       /\ tr.ret = 0 - 1 <=> tr.out \notin {"normal", "RecoverableFailure"}

\* presolvefn of cvode_serial.c came back from a closure that raised
\* RecoverableFailure and returned 1.
C12_Witness ==
    /\ tr.unit = "cvode_serial" /\ tr.name = "presolvefn"
    /\ tr.pc = "returned"
    /\ tr.out = "RecoverableFailure"
    /\ tr.ret = 1

\* f of cvode_ml_nvec.c came back from a closure that raised another
\* exception and returned -1.
C12_FatalWitness ==
    /\ tr.unit = "cvode_ml_nvec" /\ tr.name = "f"
    /\ tr.pc = "returned"
    /\ tr.out = "Not_found"
    /\ tr.ret = 0 - 1

(***************************************************************************)
(* Claims about the registration protocol.                                 *)
(***************************************************************************)

\* C13: when the program follows the registration protocol, whenever the
\* solver is in a library call on a session of cvode_serial.c, the closure
\* slot of every trampoline that call may invoke is not NULL.
C13_SlotsSetWhenSolverCalls ==
    (stack # <<>> /\ ~halted) =>
       ((Top.kind = "lib" /\ ses[Top.s].unit = "cvode_serial") =>
          \A cb \in LibraryCallbacks(Top.name, Top.s) : cb \in ses[Top.s].closures)

\* What holds of C13: the slots are set in every library call on a session
\* on which c_free has not been called.
C13_SlotsSetUnlessFreed ==
    (stack # <<>> /\ ~halted) =>
       ((Top.kind = "lib" /\ Top.s \notin log.freed) =>
          \A cb \in LibraryCallbacks(Top.name, Top.s) : cb \in ses[Top.s].closures)

(***************************************************************************)
(* Claims about releasing a session.                                       *)
(***************************************************************************)

\* C14: releasing a session is idempotent. Once c_free has been called on a
\* session, however often, and also after the collector has finalized the
\* block, no closure root, solver memory or error file of the session has
\* been released twice, none is still held, and CVodeFree has been called.
C14_ReleasedExactlyOnce ==
    \A s \in Sessions :
       s \in log.freed =>
          /\ log.twice[s] = {}
          /\ ses[s].closures = {}
          /\ cmem[s].st = "freed" /\ "cvode_mem" \in log.done[s]
          /\ ses[s].cvode_mem = NULL
          /\ cfile[s] # "open" /\ ses[s].err_file = NULL

\* c_free was called on a session with a registered root and an open error
\* file, and the collector has finalized the block since.
C14_Witness ==
    \E s \in Sessions :
       /\ s \in log.freed
       /\ ses[s].blk = "reclaimed"
       /\ {"rhsfn", "errh", "cvode_mem", "err_file"} \subseteq log.done[s]

\* C15: every closure root that a handler slot of a live session points to
\* is registered with the collector, whatever c_register_handler calls and
\* finalizations were made on this and on other sessions.
C15_LiveSlotsAreRooted ==
    \A s \in Sessions :
       ses[s].blk = "live" => ses[s].closures \subseteq roots

\* What holds of C15: a slot of a live session points to a root that is no
\* longer registered only after a finalizer run on another session has
\* removed the root of the same handler; registering again never does it.
C15_RootedUnlessOtherFinalized ==
    \A s \in Sessions :
       ses[s].blk = "live" =>
          \A h \in ses[s].closures \ roots :
             \E x \in Sessions \ {s} : h \in log.done[x]

(***************************************************************************)
(* Claims about exceptions raised by closures.                             *)
(***************************************************************************)

\* C16: no exception raised by a closure unwinds through the frames of the
\* solver: every trampoline, errh included, comes back to the solver by
\* returning.
C16_NoExceptionUnwinds == tr.pc # "unwound"

\* What holds of C16: the trampolines that call their closure with
\* caml_callback*_exn return to the solver whatever the closure did.
C16_ExnTrampolinesReturn ==
    (tr.pc \in {"returned", "unwound"} /\ UsesCallbackExn(tr.name)) =>
       /\ tr.pc = "returned"
       /\ tr.ret = check_exception(tr.out)

=============================================================================
